---- MODULE Spec2Model ----
(***************************************************************************)
(* rdf2hdt: the RDF -> HDT encoder of src/src/lib.rs.                      *)
(*                                                                         *)
(* A term is a Rust String, modelled as a sequence of Unicode scalar       *)
(* values (code points); its bytes are its UTF-8 encoding.  The model      *)
(* keeps both views because LogSequence2::compress counts a common prefix  *)
(* in chars and then slices the term at that number as a byte index.       *)
(***************************************************************************)
EXTENDS Integers, Sequences, FiniteSets, TLC

VARIABLES
    \* ---- build_hdt (lib.rs:600-626) ----
    file_paths,     \* the caller's list of input paths
    dest_file,      \* state of the output path: "absent", "old", or the parts written
    disk,           \* content of every input file: path -> sequence of triples
    tmp_files,      \* temporary files that exist on disk: name -> sequence of triples
    pc,             \* position of build_hdt
    nt_file,        \* the N-Triples file ConvertedHDT::load reads
    dict,           \* FourSectionDictionary
    encoded,        \* Vec<EncodedTripleId> returned by FourSectionDictionary::load
    bmap,           \* BitmapTriples
    num_triples,    \* ConvertedHDT.num_triples
    header,         \* ConvertedHDT.header.fields: the triples of the header graph
    result,         \* what build_hdt returned: "none", Ok, Err or a panic
    tmp_file,       \* path of the NamedTempFile of lib.rs:613, NoPath when there is none
    warnings,       \* the warn! records of the run: the file each one names
    syntax_errors,  \* the input files whose text ends in a syntax error
    named_graphs,   \* <<path, i>>: quad i of the file is in a named graph
    run,            \* 1 in the caller's first call of build_hdt, 2 in its second
    first_out,      \* the parts the first call wrote, kept by the caller
    \* ---- LogSequence2::compress called on its own ----
    pfc_set,        \* the BTreeSet<String> argument
    pfc_out,        \* the returned LogSequence2, "none" before the call
    \* ---- BitmapTriples::load called on its own ----
    bt_in,          \* the Vec<EncodedTripleId> argument
    bt_out,         \* the returned BitmapTriples, "none" before the call
    \* ---- byte_align_bitmap called on its own ----
    bits_in,        \* the &[bool] argument
    bits_out        \* the returned Vec<u8>, "none" before the call

in_vars == <<syntax_errors, named_graphs>>
rerun_vars == <<run, first_out>>
build_vars == <<file_paths, dest_file, disk, tmp_files, pc, nt_file, dict, encoded,
                bmap, num_triples, header, result, tmp_file, warnings, in_vars,
                rerun_vars>>
pfc_vars == <<pfc_set, pfc_out>>
bt_vars == <<bt_in, bt_out>>
bits_vars == <<bits_in, bits_out>>
vars == <<build_vars, pfc_vars, bt_vars, bits_vars>>

----------------------------------------------------------------------------
(* Bounds of the model.                                                    *)

\* longest input (number of triples in the input files together)
MaxTriples == 2
\* compress alone: sets with at most this many terms, or all but this many
MaxPfcTerms == 2
\* BitmapTriples::load alone: longest triple vector, largest ID
MaxBtLen == 2
MaxBtId == 2
\* byte_align_bitmap alone: longest bitmap
MaxBits == 9

----------------------------------------------------------------------------
(* Strings.                                                                *)

Min(a, b) == IF a < b THEN a ELSE b

\* UTF-8 encoding of one scalar value (up to U+FFFF; no surrogates are used).
Utf8Char(c) ==
    IF c < 128 THEN <<c>>
    ELSE IF c < 2048 THEN <<192 + (c \div 64), 128 + (c % 64)>>
    ELSE <<224 + (c \div 4096), 128 + ((c \div 64) % 64), 128 + (c % 64)>>

\* str::as_bytes
RECURSIVE as_bytes(_)
as_bytes(term) ==
    IF term = <<>> THEN <<>> ELSE Utf8Char(Head(term)) \o as_bytes(Tail(term))

\* Ord for String / str: lexicographic on the bytes.
RECURSIVE BytesLess(_, _)
BytesLess(a, b) ==
    IF b = <<>> THEN FALSE
    ELSE IF a = <<>> THEN TRUE
    ELSE IF Head(a) # Head(b) THEN Head(a) < Head(b)
    ELSE BytesLess(Tail(a), Tail(b))

StrLess(s, t) == BytesLess(as_bytes(s), as_bytes(t))

\* Iteration order of a BTreeSet<String>: ascending.
RECURSIVE BTreeIter(_)
BTreeIter(set) ==
    IF set = {} THEN <<>>
    ELSE LET m == CHOOSE x \in set : \A y \in set \ {x} : StrLess(x, y)
         IN  <<m>> \o BTreeIter(set \ {m})

\* str::is_char_boundary(k): k is 0, the length, or the start of a char.
RECURSIVE CharStarts(_, _)
CharStarts(term, at) ==
    IF term = <<>> THEN {at}
    ELSE {at} \cup CharStarts(Tail(term), at + Len(Utf8Char(Head(term))))

is_char_boundary(term, k) == k \in CharStarts(term, 0)

\* hdt::containers::vbyte::encode_vbyte: 7 data bits per byte, low group first,
\* the high bit marks a continuation.
RECURSIVE encode_vbyte(_)
encode_vbyte(n) ==
    IF n < 128 THEN <<n>> ELSE <<128 + (n % 128)>> \o encode_vbyte(n \div 128)

----------------------------------------------------------------------------
(* LogSequence2::compress (lib.rs:90-126, log_sequence.rs:21-57).          *)

block_size == 16

\* last_term.chars().zip(term.chars()).take_while(|(a, b)| a == b).count()
RECURSIVE common_prefix_len(_, _)
common_prefix_len(last_term, term) ==
    IF last_term = <<>> \/ term = <<>> \/ Head(last_term) # Head(term) THEN 0
    ELSE 1 + common_prefix_len(Tail(last_term), Tail(term))

\* term[k..].as_bytes(): the bytes from BYTE index k on.  The caller has
\* checked that k is a char boundary (the slice panics otherwise).
SliceFrom(term, k) == SubSeq(as_bytes(term), k + 1, Len(as_bytes(term)))

\* the offset of a block is recorded after its first term is stored
CompressStep_offset_after_term(acc, terms, i) ==
    LET term == terms[i + 1]
        last_term == IF i = 0 THEN <<>> ELSE terms[i]
        k == common_prefix_len(last_term, term)
        stored == acc.compressed_terms \o as_bytes(term) \o <<0>>
    IN  IF acc.panic THEN acc
        ELSE IF i % block_size = 0
        THEN [acc EXCEPT !.offsets = Append(@, Len(stored)),
                         !.compressed_terms = stored]
        ELSE IF ~is_char_boundary(term, k)
        THEN [acc EXCEPT !.panic = TRUE]
        ELSE [acc EXCEPT !.compressed_terms =
                             @ \o encode_vbyte(k) \o SliceFrom(term, k) \o <<0>>]

\* One iteration of the loop at lib.rs:100-118 for terms[i+1] (i counts from 0).
\* acc = [panic, compressed_terms, offsets]
CompressStep(acc, terms, i) ==
    LET term == terms[i + 1]
        last_term == IF i = 0 THEN <<>> ELSE terms[i]
        k == common_prefix_len(last_term, term)
    IN  IF acc.panic THEN acc
        ELSE IF i % block_size = 0
        THEN [acc EXCEPT !.offsets = Append(@, Len(acc.compressed_terms)),
                         !.compressed_terms = @ \o as_bytes(term) \o <<0>>]
        ELSE IF ~is_char_boundary(term, k)
        THEN [acc EXCEPT !.panic = TRUE]
        ELSE [acc EXCEPT !.compressed_terms =
                             @ \o encode_vbyte(k) \o SliceFrom(term, k) \o <<0>>]

RECURSIVE CompressLoop(_, _, _)
CompressLoop(acc, terms, i) ==
    IF i >= Len(terms) THEN acc
    ELSE CompressLoop(CompressStep(acc, terms, i), terms, i + 1)

\* The returned LogSequence2; panic = TRUE when the slice at lib.rs:112 panics.
compress(set) ==
    LET terms == BTreeIter(set)
        acc == CompressLoop([panic |-> FALSE, compressed_terms |-> <<>>,
                             offsets |-> <<>>], terms, 0)
    IN  IF acc.panic
        THEN [panic |-> TRUE, compressed_terms |-> <<>>, offsets |-> <<>>,
              num_terms |-> 0]
        ELSE [panic |-> FALSE,
              compressed_terms |-> acc.compressed_terms,
              offsets |-> Append(acc.offsets, Len(acc.compressed_terms)),
              num_terms |-> Len(terms)]

----------------------------------------------------------------------------
(* sort_triples_spo / spo_comparator (lib.rs:629-645).                     *)

\* spo_comparator(a, b) = Ordering::Less
spo_comparator(a, b) ==
    IF a.subject # b.subject THEN a.subject < b.subject
    ELSE IF a.predicate # b.predicate THEN a.predicate < b.predicate
    ELSE a.object < b.object

RECURSIVE InsertSorted(_, _)
InsertSorted(t, sorted) ==
    IF sorted = <<>> THEN <<t>>
    ELSE IF spo_comparator(t, Head(sorted)) THEN <<t>> \o sorted
    ELSE <<Head(sorted)>> \o InsertSorted(t, Tail(sorted))

\* triples.sort_by(spo_comparator): equal elements are indistinguishable, so
\* any sorting algorithm gives this sequence.
RECURSIVE sort_triples_spo(_)
sort_triples_spo(triples) ==
    IF triples = <<>> THEN <<>>
    ELSE InsertSorted(Head(triples), sort_triples_spo(Tail(triples)))

----------------------------------------------------------------------------
(* BitmapTriples::load (lib.rs:667-742).                                   *)

\* a new subject does not close the previous one in By (pushes a 0)
BitmapStep_subject_not_closed(acc, triple) ==
    LET x == triple.subject
        y == triple.predicate
        z == triple.object
        seen == [acc EXCEPT !.last_x = x, !.last_y = y, !.last_z = z,
                            !.num_triples = @ + 1]
    IN  IF acc.panic THEN acc
        ELSE IF x = 0 \/ y = 0 \/ z = 0 THEN [acc EXCEPT !.panic = TRUE]
        ELSE IF acc.num_triples = 0
        THEN [seen EXCEPT !.y_vec = Append(@, y), !.z_vec = Append(@, z)]
        ELSE IF x # acc.last_x \/ y # acc.last_y
        THEN [seen EXCEPT !.bitmap_y = Append(@, FALSE), !.y_vec = Append(@, y),
                          !.bitmap_z = Append(@, TRUE), !.z_vec = Append(@, z)]
        ELSE [seen EXCEPT !.bitmap_z = Append(@, FALSE), !.z_vec = Append(@, z)]

\* One iteration of the loop at lib.rs:680-729.
BitmapStep(acc, triple) ==
    LET x == triple.subject
        y == triple.predicate
        z == triple.object
        seen == [acc EXCEPT !.last_x = x, !.last_y = y, !.last_z = z,
                            !.num_triples = @ + 1]
    IN  IF acc.panic THEN acc
        ELSE IF x = 0 \/ y = 0 \/ z = 0 THEN [acc EXCEPT !.panic = TRUE]
        ELSE IF acc.num_triples = 0
        THEN [seen EXCEPT !.y_vec = Append(@, y), !.z_vec = Append(@, z)]
        ELSE IF x # acc.last_x
        THEN IF x # acc.last_x + 1 THEN [acc EXCEPT !.panic = TRUE]
             ELSE [seen EXCEPT !.bitmap_y = Append(@, TRUE), !.y_vec = Append(@, y),
                               !.bitmap_z = Append(@, TRUE), !.z_vec = Append(@, z)]
        ELSE IF y # acc.last_y
        THEN IF y < acc.last_y THEN [acc EXCEPT !.panic = TRUE]
             ELSE [seen EXCEPT !.bitmap_y = Append(@, FALSE), !.y_vec = Append(@, y),
                               !.bitmap_z = Append(@, TRUE), !.z_vec = Append(@, z)]
        ELSE IF z < acc.last_z THEN [acc EXCEPT !.panic = TRUE]
        ELSE [seen EXCEPT !.bitmap_z = Append(@, FALSE), !.z_vec = Append(@, z)]

RECURSIVE BitmapLoop(_, _)
BitmapLoop(acc, triples) ==
    IF triples = <<>> THEN acc
    ELSE BitmapLoop(BitmapStep(acc, Head(triples)), Tail(triples))

NoBitmapTriples ==
    [panic |-> FALSE, y_vec |-> <<>>, z_vec |-> <<>>, bitmap_y |-> <<>>,
     bitmap_z |-> <<>>, num_triples |-> 0]

\* no closing 1 is pushed when there is no triple
BitmapTriples_load_empty_unterminated(triples) ==
    LET sorted == sort_triples_spo(triples)
        acc == BitmapLoop([panic |-> FALSE, y_vec |-> <<>>, z_vec |-> <<>>,
                           bitmap_y |-> <<>>, bitmap_z |-> <<>>,
                           last_x |-> 0, last_y |-> 0, last_z |-> 0,
                           num_triples |-> 0], sorted)
    IN  IF acc.panic THEN [NoBitmapTriples EXCEPT !.panic = TRUE]
        ELSE IF triples = <<>> THEN NoBitmapTriples
        ELSE [panic |-> FALSE,
              y_vec |-> acc.y_vec,
              z_vec |-> acc.z_vec,
              bitmap_y |-> Append(acc.bitmap_y, TRUE),
              bitmap_z |-> Append(acc.bitmap_z, TRUE),
              num_triples |-> Len(triples)]

\* The returned BitmapTriples; panic = TRUE when one of the panic! calls is hit.
BitmapTriples_load(triples) ==
    LET sorted == sort_triples_spo(triples)
        acc == BitmapLoop([panic |-> FALSE, y_vec |-> <<>>, z_vec |-> <<>>,
                           bitmap_y |-> <<>>, bitmap_z |-> <<>>,
                           last_x |-> 0, last_y |-> 0, last_z |-> 0,
                           num_triples |-> 0], sorted)
    IN  IF acc.panic THEN [NoBitmapTriples EXCEPT !.panic = TRUE]
        ELSE [panic |-> FALSE,
              y_vec |-> acc.y_vec,
              z_vec |-> acc.z_vec,
              bitmap_y |-> Append(acc.bitmap_y, TRUE),
              bitmap_z |-> Append(acc.bitmap_z, TRUE),
              num_triples |-> Len(triples)]

----------------------------------------------------------------------------
(* FourSectionDictionary::load (lib.rs:247-337) on the triples the          *)
(* N-Triples parser yields for the file.  A parsed triple is a record       *)
(* [s, p, o] of term strings, already in the form term_to_hdt_bgp_str       *)
(* gives them.                                                              *)

\* The sets of pass 1 (lib.rs:259-269).
subjects_of(triples) == {triples[i].s : i \in DOMAIN triples}
predicates_of(triples) == {triples[i].p : i \in DOMAIN triples}
objects_of(triples) == {triples[i].o : i \in DOMAIN triples}

\* lib.rs:271
shared_terms_of(subject_terms, object_terms) == subject_terms \cap object_terms

\* difference() left out: the shared terms stay in the set
difference_keeps_shared(terms, shared) == terms

\* lib.rs:272-275 and 276-279
difference(terms, shared) == terms \ shared

\* the first term of a set gets first_id + 1
assign_ids_off_by_one(set, first_id) ==
    LET terms == BTreeIter(set)
    IN  [t \in set |-> first_id + (CHOOSE i \in DOMAIN terms : terms[i] = t)]

\* The loops at lib.rs:282-300: the terms of a set get first_id, first_id+1, ...
\* in iteration order.
assign_ids(set, first_id) ==
    LET terms == BTreeIter(set)
    IN  [t \in set |-> first_id + (CHOOSE i \in DOMAIN terms : terms[i] = t) - 1]

\* lib.rs:303-305: (i + 1) for the i-th predicate, i from 0.
assign_pred_ids(set) ==
    LET terms == BTreeIter(set)
    IN  [t \in set |-> CHOOSE i \in DOMAIN terms : terms[i] = t]

\* Passes 1 and 2: the dictionary without the encoded triples.
build_dictionary(triples) ==
    LET subject_terms == subjects_of(triples)
        object_terms == objects_of(triples)
        shared == shared_terms_of(subject_terms, object_terms)
        subj_only == difference(subject_terms, shared)
        obj_only == difference(object_terms, shared)
        preds == predicates_of(triples)
        shared_id == 1 + Cardinality(shared)
    IN  [shared_terms |-> shared,
         subject_terms |-> subj_only,
         object_terms |-> obj_only,
         predicate_terms |-> preds,
         so_id_map |-> assign_ids(shared, 1),
         subject_id_map |-> assign_ids(subj_only, shared_id),
         object_id_map |-> assign_ids(obj_only, shared_id),
         pred_id_map |-> assign_pred_ids(preds)]

\* predicates numbered from 0: the (i + 1) of lib.rs:304 undone
term_to_id_pred_from_zero(d, term, role) ==
    IF role = "Predicate" THEN d.pred_id_map[term] - 1
    ELSE IF role = "Subject"
    THEN IF term \in DOMAIN d.so_id_map THEN d.so_id_map[term]
         ELSE d.subject_id_map[term]
    ELSE IF term \in DOMAIN d.so_id_map THEN d.so_id_map[term]
         ELSE d.object_id_map[term]

\* FourSectionDictionary::term_to_id (lib.rs:339-357).  The unwrap()s cannot
\* fail: every term of pass 3 was inserted in pass 1.
term_to_id(d, term, role) ==
    IF role = "Predicate" THEN d.pred_id_map[term]
    ELSE IF role = "Subject"
    THEN IF term \in DOMAIN d.so_id_map THEN d.so_id_map[term]
         ELSE d.subject_id_map[term]
    ELSE IF term \in DOMAIN d.so_id_map THEN d.so_id_map[term]
         ELSE d.object_id_map[term]

\* the subject IDs count from 0
encode_triples_subjects_from_zero(d, triples) ==
    [i \in DOMAIN triples |->
        [subject |-> term_to_id(d, triples[i].s, "Subject") - 1,
         predicate |-> term_to_id(d, triples[i].p, "Predicate"),
         object |-> term_to_id(d, triples[i].o, "Object")]]

\* Pass 3 (lib.rs:315-333): one EncodedTripleId per parsed triple, in file order.
encode_triples(d, triples) ==
    [i \in DOMAIN triples |->
        [subject |-> term_to_id(d, triples[i].s, "Subject"),
         predicate |-> term_to_id(d, triples[i].p, "Predicate"),
         object |-> term_to_id(d, triples[i].o, "Object")]]

EmptyDictionary ==
    [shared_terms |-> {}, subject_terms |-> {}, object_terms |-> {},
     predicate_terms |-> {}, so_id_map |-> <<>>, subject_id_map |-> <<>>,
     object_id_map |-> <<>>, pred_id_map |-> <<>>]

----------------------------------------------------------------------------
(* Readers of the written structures, as the claims describe them.  They   *)
(* are not code of the encoder: the properties below are stated with them. *)

\* Inverse of encode_vbyte at position pos (1-based): [value, next].
RECURSIVE ReadVbyte(_, _)
ReadVbyte(bytes, pos) ==
    IF pos > Len(bytes) THEN [value |-> 0, next |-> pos]
    ELSE IF bytes[pos] < 128 THEN [value |-> bytes[pos], next |-> pos + 1]
    ELSE LET rest == ReadVbyte(bytes, pos + 1)
         IN  [value |-> (bytes[pos] - 128) + 128 * rest.value, next |-> rest.next]

\* Position of the first 0x00 at or after pos (Len + 1 if there is none).
RECURSIVE FindNul(_, _)
FindNul(bytes, pos) ==
    IF pos > Len(bytes) \/ bytes[pos] = 0 THEN pos ELSE FindNul(bytes, pos + 1)

\* Number of bytes the first n chars of a UTF-8 byte string take.
RECURSIVE CharsToBytes(_, _)
CharsToBytes(bytes, n) ==
    IF n = 0 \/ bytes = <<>> THEN 0
    ELSE LET w == IF Head(bytes) < 192 THEN 1
                  ELSE IF Head(bytes) < 224 THEN 2 ELSE 3
             width == Min(w, Len(bytes))
         IN  width + CharsToBytes(SubSeq(bytes, width + 1, Len(bytes)), n - 1)

\* The front-coded terms of a section, as byte strings.  unit = "chars": the
\* prefix length counts chars of the previous term; unit = "bytes": it counts
\* its bytes (the HDT on-disk convention).
RECURSIVE DecodeTerms(_, _, _, _, _)
DecodeTerms(ls, unit, i, pos, prev) ==
    IF i >= ls.num_terms THEN <<>>
    ELSE LET head == (i % block_size = 0)
             pre == IF head THEN [value |-> 0, next |-> pos]
                    ELSE ReadVbyte(ls.compressed_terms, pos)
             nul == FindNul(ls.compressed_terms, pre.next)
             suffix == SubSeq(ls.compressed_terms, pre.next, nul - 1)
             keep == IF unit = "chars" THEN CharsToBytes(prev, pre.value)
                     ELSE Min(pre.value, Len(prev))
             term == SubSeq(prev, 1, keep) \o suffix
         IN  <<term>> \o DecodeTerms(ls, unit, i + 1, nul + 1, term)

DecodeSection(ls, unit) == DecodeTerms(ls, unit, 0, 1, <<>>)

\* The sorted term list of a set, as byte strings.
SortedBytes(set) == [i \in 1..Cardinality(set) |-> as_bytes(BTreeIter(set)[i])]

\* Walk of Z and Y with Bz and By: a 1 in Bz closes the (s, p) group, a 1 in By
\* closes the subject; subjects are counted 1, 2, ...
RECURSIVE WalkTriples(_, _, _, _)
WalkTriples(bt, zi, yi, subject) ==
    IF zi > Len(bt.z_vec) \/ yi > Len(bt.y_vec) THEN <<>>
    ELSE LET t == [subject |-> subject, predicate |-> bt.y_vec[yi],
                   object |-> bt.z_vec[zi]]
             zbit == zi <= Len(bt.bitmap_z) /\ bt.bitmap_z[zi]
             ybit == yi <= Len(bt.bitmap_y) /\ bt.bitmap_y[yi]
         IN  <<t>> \o WalkTriples(bt, zi + 1,
                                  IF zbit THEN yi + 1 ELSE yi,
                                  IF zbit /\ ybit THEN subject + 1 ELSE subject)

ReconstructTriples(bt) == WalkTriples(bt, 1, 1, 1)

Ones(bits) == Cardinality({i \in DOMAIN bits : bits[i]})

----------------------------------------------------------------------------
(* LogSequence2::compress on its own: the argument ranges over sets of     *)
(* ASCII and multi-byte terms, small ones and ones that fill a block.      *)

\* "a", "b", "aa", ... : 18 terms over the letters a and b
AsciiTerms ==
    {<<97>>, <<98>>} \cup
    {<<x, y>> : x \in {97, 98}, y \in {97, 98}} \cup
    {<<x, y, z>> : x \in {97, 98}, y \in {97, 98}, z \in {97, 98}} \cup
    {<<97, 97, 97, 97>>, <<97, 97, 97, 98>>, <<97, 98, 97, 98>>, <<98, 98, 98, 98>>}

\* "é", "éa", "ééa", "ééb" (é is 2 bytes in UTF-8)
MultiByteTerms ==
    {<<233>>, <<233, 97>>, <<233, 233, 97>>, <<233, 233, 98>>}

PfcInputs ==
    {A \cup M : A \in {X \in SUBSET AsciiTerms :
                         \/ Cardinality(X) <= MaxPfcTerms
                         \/ Cardinality(AsciiTerms \ X) <= MaxPfcTerms},
                M \in SUBSET MultiByteTerms}

NoResult == [tag |-> "none", kind |-> "", msg |-> ""]

InitBuildIdle ==
    /\ file_paths = <<>>
    /\ dest_file = [state |-> "absent", parts |-> <<>>]
    /\ disk = <<>>
    /\ tmp_files = <<>>
    /\ pc = "idle"
    /\ nt_file = <<>>
    /\ dict = EmptyDictionary
    /\ encoded = <<>>
    /\ bmap = NoBitmapTriples
    /\ num_triples = 0
    /\ header = {}
    /\ result = NoResult
    /\ tmp_file = <<>>
    /\ warnings = <<>>
    /\ syntax_errors = {}
    /\ named_graphs = {}
    /\ run = 1
    /\ first_out = <<>>

InitPfc ==
    /\ pfc_set \in PfcInputs
    /\ pfc_out = <<>>
    /\ bt_in = <<>>
    /\ bt_out = <<>>
    /\ bits_in = <<>>
    /\ bits_out = <<>>
    /\ InitBuildIdle

\* let ls = LogSequence2::compress(&set)
PfcCompress ==
    /\ pfc_out = <<>>
    /\ pfc_out' = <<compress(pfc_set)>>
    /\ UNCHANGED <<pfc_set, bt_vars, bits_vars, build_vars>>

NextPfc == PfcCompress

SpecPfc == InitPfc /\ [][NextPfc]_vars

----------------------------------------------------------------------------
(* BitmapTriples::load on its own: the argument ranges over the vectors of *)
(* at most MaxBtLen triples with IDs in 0..MaxBtId.                        *)

BtIds == 0..MaxBtId

BtTriples == [subject : BtIds, predicate : BtIds, object : BtIds]

BtInputs == UNION {[1..n -> BtTriples] : n \in 0..MaxBtLen}

InitBt ==
    /\ bt_in \in BtInputs
    /\ bt_out = <<>>
    /\ pfc_set = {}
    /\ pfc_out = <<>>
    /\ bits_in = <<>>
    /\ bits_out = <<>>
    /\ InitBuildIdle

\* let bt = BitmapTriples::load(triples)
BtLoad ==
    /\ bt_out = <<>>
    /\ bt_out' = <<BitmapTriples_load(bt_in)>>
    /\ UNCHANGED <<bt_in, pfc_vars, bits_vars, build_vars>>

NextBt == BtLoad

SpecBt == InitBt /\ [][NextBt]_vars

----------------------------------------------------------------------------
(* Section serializers (lib.rs:195-201, 790-813).                          *)

\* u32::to_le_bytes
to_le_bytes(v) ==
    <<v % 256, (v \div 256) % 256, (v \div 65536) % 256, (v \div 16777216) % 256>>

RECURSIVE convert_vec_u32_to_vec_u8(_)
convert_vec_u32_to_vec_u8(ints) ==
    IF ints = <<>> THEN <<>>
    ELSE to_le_bytes(Head(ints)) \o convert_vec_u32_to_vec_u8(Tail(ints))

\* the first bit of a byte goes to its most significant bit
RECURSIVE ByteAlignLoop_msb_first(_, _, _, _)
ByteAlignLoop_msb_first(bits, byte, bit_index, byte_vec) ==
    IF bits = <<>>
    THEN IF bit_index > 0 THEN Append(byte_vec, byte) ELSE byte_vec
    ELSE LET b == IF Head(bits) THEN byte + 2^(7 - bit_index) ELSE byte
         IN  IF bit_index + 1 = 8
             THEN ByteAlignLoop_msb_first(Tail(bits), 0, 0, Append(byte_vec, b))
             ELSE ByteAlignLoop_msb_first(Tail(bits), b, bit_index + 1, byte_vec)

\* The loop of byte_align_bitmap (lib.rs:795-806) and the padding after it.
RECURSIVE ByteAlignLoop(_, _, _, _)
ByteAlignLoop(bits, byte, bit_index, byte_vec) ==
    IF bits = <<>>
    THEN IF bit_index > 0 THEN Append(byte_vec, byte) ELSE byte_vec
    ELSE LET b == IF Head(bits) THEN byte + 2^bit_index ELSE byte
         IN  IF bit_index + 1 = 8
             THEN ByteAlignLoop(Tail(bits), 0, 0, Append(byte_vec, b))
             ELSE ByteAlignLoop(Tail(bits), b, bit_index + 1, byte_vec)

byte_align_bitmap(bits) == ByteAlignLoop(bits, 0, 0, <<>>)

----------------------------------------------------------------------------
(* byte_align_bitmap on its own: the argument ranges over the bitmaps of   *)
(* at most MaxBits bits.                                                   *)

BitsInputs == UNION {[1..n -> BOOLEAN] : n \in 0..MaxBits}

InitBits ==
    /\ bits_in \in BitsInputs
    /\ bits_out = <<>>
    /\ pfc_set = {}
    /\ pfc_out = <<>>
    /\ bt_in = <<>>
    /\ bt_out = <<>>
    /\ InitBuildIdle

\* let buf = byte_align_bitmap(v)
BitsAlign ==
    /\ bits_out = <<>>
    /\ bits_out' = <<byte_align_bitmap(bits_in)>>
    /\ UNCHANGED <<bits_in, pfc_vars, bt_vars, build_vars>>

NextBits == BitsAlign

SpecBits == InitBits /\ [][NextBits]_vars

----------------------------------------------------------------------------
(* build_hdt (lib.rs:600-626) and what it calls.                           *)

\* A path is its stem and its extension; ends_with(".nt") is ext = "nt", and
\* Path::extension() is None when ext = "".
NtPath == [name |-> "in", ext |-> "nt"]
TtlPath == [name |-> "in", ext |-> "ttl"]
NqPath == [name |-> "in", ext |-> "nq"]
XyzPath == [name |-> "in", ext |-> "xyz"]
NoExtPath == [name |-> "in", ext |-> ""]
TmpPath == [name |-> "tmp", ext |-> "nt"]
TmpPath2 == [name |-> "tmp2", ext |-> "nt"]
NoPath == [name |-> "", ext |-> ""]

InputPaths == {NtPath, TtlPath, NqPath, XyzPath, NoExtPath}

\* The names tempfile::Builder can give the temporary file (they are random).
TmpPaths == {TmpPath, TmpPath2}

\* The extensions RdfFormat::from_extension knows, as far as the inputs use them.
RecognizedExtensions == {"nt", "ttl", "nq"}

\* The caller's lists of input paths.
InputLists ==
    {<<>>, <<NtPath>>, <<TtlPath>>, <<NqPath>>, <<XyzPath>>, <<NoExtPath>>,
     <<NtPath, TtlPath>>, <<NqPath, XyzPath>>}

\* Terms of the input: the nodes "a", "éa", "éb" and the predicates "p", "q".
Nodes == {<<97>>, <<233, 97>>, <<233, 98>>}
Preds == {<<112>>, <<113>>}

ParsedTriples == [s : Nodes, p : Preds, o : Nodes]

TripleLists == UNION {[1..n -> ParsedTriples] : n \in 0..MaxTriples}

\* The triples of the inputs with several files, syntax errors or named graphs.
FewTriples == [s : {<<97>>, <<233, 97>>}, p : {<<112>>}, o : {<<97>>, <<233, 97>>}]

FewTripleLists == UNION {[1..n -> FewTriples] : n \in 0..MaxTriples}

NoFiles == [f \in {} |-> <<>>]

\* The triples the parser yields for a file: a temporary file or an input file.
ReadTriples(path) ==
    IF path \in DOMAIN tmp_files THEN tmp_files[path] ELSE disk[path]

\* Bytes of the N-Triples text of a list of triples (a line per triple).
RECURSIVE NtSize(_)
NtSize(triples) ==
    IF triples = <<>> THEN 0
    ELSE Len(as_bytes(Head(triples).s)) + Len(as_bytes(Head(triples).p))
           + Len(as_bytes(Head(triples).o)) + 11 + NtSize(Tail(triples))

Err(kind, msg) == [tag |-> "Err", kind |-> kind, msg |-> msg]
Panic(msg) == [tag |-> "Panic", kind |-> "", msg |-> msg]
OkResult == [tag |-> "Ok", kind |-> "", msg |-> ""]

\* The state of build_hdt's locals before the call.
InitLocals ==
    /\ tmp_files = NoFiles
    /\ pc = "start"
    /\ nt_file = NoPath
    /\ tmp_file = NoPath
    /\ dict = EmptyDictionary
    /\ encoded = <<>>
    /\ bmap = NoBitmapTriples
    /\ num_triples = 0
    /\ header = {}
    /\ result = NoResult
    /\ warnings = <<>>
    /\ run = 1
    /\ first_out = <<>>
    /\ pfc_set = {}
    /\ pfc_out = <<>>
    /\ bt_in = <<>>
    /\ bt_out = <<>>
    /\ bits_in = <<>>
    /\ bits_out = <<>>

\* One well-formed file of any triples, .nt or Turtle.
InitOneFile ==
    /\ file_paths \in {<<NtPath>>, <<TtlPath>>}
    /\ \E content \in TripleLists :
          disk = [f \in InputPaths |-> IF f = file_paths[1] THEN content ELSE <<>>]
    /\ syntax_errors = {}
    /\ named_graphs = {}

\* Any list of paths, of few triples: the parsed files may end in a syntax
\* error, and the quads of the N-Quads file may be in a named graph.  A file
\* that no parser reads has no triples.
InitAnyList ==
    /\ file_paths \in InputLists
    /\ \E c1, c2 \in FewTripleLists :
          /\ Len(c1) + Len(c2) <= MaxTriples
          /\ Len(file_paths) < 1 => c1 = <<>>
          /\ Len(file_paths) < 2 => c2 = <<>>
          /\ disk = [f \in InputPaths |->
                       IF f.ext \notin RecognizedExtensions THEN <<>>
                       ELSE IF Len(file_paths) >= 1 /\ f = file_paths[1] THEN c1
                       ELSE IF Len(file_paths) >= 2 /\ f = file_paths[2] THEN c2
                       ELSE <<>>]
    /\ syntax_errors \in SUBSET {f \in InputPaths :
                                   /\ f.ext \in RecognizedExtensions
                                   /\ \E i \in DOMAIN file_paths : file_paths[i] = f}
    /\ named_graphs \in SUBSET {<<NqPath, i>> : i \in DOMAIN disk[NqPath]}

Init ==
    /\ dest_file \in {[state |-> "absent", parts |-> <<>>],
                      [state |-> "old", parts |-> <<>>]}
    /\ InitOneFile \/ InitAnyList
    /\ InitLocals

\* build_hdt without the is_empty() check of lib.rs:601
BuildStart_no_empty_check ==
    /\ pc = "start"
    /\ IF Len(file_paths) = 1 /\ file_paths[1].ext = "nt"
       THEN /\ nt_file' = file_paths[1]
            /\ pc' = "load_dict"
            /\ UNCHANGED <<result, tmp_files, tmp_file>>
       ELSE /\ \E t \in TmpPaths \ DOMAIN tmp_files :
                  /\ tmp_files' = [f \in DOMAIN tmp_files \cup {t} |->
                                      IF f = t THEN <<>> ELSE tmp_files[f]]
                  /\ tmp_file' = t
            /\ pc' = "convert"
            /\ UNCHANGED <<result, nt_file>>
    /\ UNCHANGED <<file_paths, dest_file, disk, dict, encoded, bmap, num_triples,
                   header, pfc_vars, bt_vars, bits_vars, warnings, in_vars,
                   rerun_vars>>

\* lib.rs:601-616 up to the creation of the temporary file, which gets a name
\* no file has.
BuildStart ==
    /\ pc = "start"
    /\ IF file_paths = <<>>
       THEN /\ result' = Err("InvalidData", "no files provided to convert")
            /\ pc' = "done"
            /\ UNCHANGED <<nt_file, tmp_files, tmp_file>>
       ELSE IF Len(file_paths) = 1 /\ file_paths[1].ext = "nt"
       THEN /\ nt_file' = file_paths[1]
            /\ pc' = "load_dict"
            /\ UNCHANGED <<result, tmp_files, tmp_file>>
       ELSE /\ \E t \in TmpPaths \ DOMAIN tmp_files :
                  /\ tmp_files' = [f \in DOMAIN tmp_files \cup {t} |->
                                      IF f = t THEN <<>> ELSE tmp_files[f]]
                  /\ tmp_file' = t
            /\ pc' = "convert"
            /\ UNCHANGED <<result, nt_file>>
    /\ UNCHANGED <<file_paths, dest_file, disk, dict, encoded, bmap, num_triples,
                   header, pfc_vars, bt_vars, bits_vars, warnings, in_vars,
                   rerun_vars>>

\* tempfile() fails (lib.rs:616): the ? returns the error, no file is made.
TempfileIoError ==
    /\ pc = "start"
    /\ file_paths # <<>>
    /\ ~(Len(file_paths) = 1 /\ file_paths[1].ext = "nt")
    /\ result' = Err("Io", "tempfile")
    /\ pc' = "done"
    /\ UNCHANGED <<file_paths, dest_file, disk, tmp_files, nt_file, dict, encoded, bmap,
                   num_triples, header, pfc_vars, bt_vars, bits_vars,
                   tmp_file, warnings, in_vars, rerun_vars>>

\* The triples of the listed files, one file after the other.
RECURSIVE concat_files(_)
concat_files(paths) ==
    IF paths = <<>> THEN <<>> ELSE disk[Head(paths)] \o concat_files(Tail(paths))

\* The quads the parser yields for an input file (lib.rs:867): a Turtle or
\* N-Triples parser gives every quad the default graph.
Quads(file) ==
    [i \in DOMAIN disk[file] |->
        [s |-> disk[file][i].s, p |-> disk[file][i].p, o |-> disk[file][i].o,
         graph_name |-> IF <<file, i>> \in named_graphs
                        THEN "NamedNode" ELSE "DefaultGraph"]]

\* The loop over the quads of one file (lib.rs:868-894).
\* acc = [result, written, warnings]
RECURSIVE ConvertQuads(_, _, _)
ConvertQuads(acc, file, quads) ==
    IF quads = <<>> THEN acc
    ELSE LET q == Head(quads)
             warned == IF q.graph_name # "DefaultGraph"
                       THEN Append(acc.warnings, file) ELSE acc.warnings
             triple == [s |-> q.s, p |-> q.p, o |-> q.o]
         IN  ConvertQuads([acc EXCEPT !.warnings = warned,
                                      !.written = Append(@, triple)],
                          file, Tail(quads))

\* a syntax error ends the file's quads without an error
ConvertFile_syntax_error_ends_file(acc, file) ==
    IF acc.result.tag # "Ok" THEN acc
    ELSE IF file.ext = ""
    THEN [acc EXCEPT !.result = Panic("called Option::unwrap() on a None value")]
    ELSE IF file.ext \notin RecognizedExtensions
    THEN [acc EXCEPT !.result = Err("InvalidData", "unrecognized file extension")]
    ELSE ConvertQuads(acc, file, Quads(file))

\* One iteration of the loop over file_paths (lib.rs:842-898), the file being
\* there to open: extension().unwrap() panics on a path without extension, an
\* extension from_extension does not know is an InvalidData error, and the
\* parser yields the quads before the syntax error and then the error.
ConvertFile(acc, file) ==
    IF acc.result.tag # "Ok" THEN acc
    ELSE IF file.ext = ""
    THEN [acc EXCEPT !.result = Panic("called Option::unwrap() on a None value")]
    ELSE IF file.ext \notin RecognizedExtensions
    THEN [acc EXCEPT !.result = Err("InvalidData", "unrecognized file extension")]
    ELSE LET after == ConvertQuads(acc, file, Quads(file))
         IN  IF file \in syntax_errors
             THEN [after EXCEPT !.result = Err("Syntax", "convert_to_nt")]
             ELSE after

\* the files are taken from the end of the list
RECURSIVE ConvertLoop_last_file_first(_, _)
ConvertLoop_last_file_first(acc, paths) ==
    IF paths = <<>> THEN acc
    ELSE ConvertLoop_last_file_first(ConvertFile(acc, paths[Len(paths)]),
                                     SubSeq(paths, 1, Len(paths) - 1))

\* for file in file_paths (lib.rs:842)
RECURSIVE ConvertLoop(_, _)
ConvertLoop(acc, paths) ==
    IF paths = <<>> THEN acc
    ELSE ConvertLoop(ConvertFile(acc, Head(paths)), Tail(paths))

\* convert_to_nt (lib.rs:837-901): what it returns, what it has written to the
\* output file and the warnings it has logged.
convert_to_nt(paths) ==
    ConvertLoop([result |-> OkResult, written |-> <<>>, warnings |-> <<>>], paths)

\* convert_to_nt(file_paths, tmp_file.reopen()?)? and lib.rs:618.  What was
\* written before an error stays in the temporary file.
ConvertToNt ==
    /\ pc = "convert"
    /\ LET r == convert_to_nt(file_paths)
       IN  /\ tmp_files' = [tmp_files EXCEPT ![tmp_file] = r.written]
           /\ warnings' = warnings \o r.warnings
           /\ IF r.result.tag = "Ok"
              THEN /\ nt_file' = tmp_file
                   /\ pc' = "load_dict"
                   /\ UNCHANGED result
              ELSE /\ result' = r.result
                   /\ pc' = "done"
                   /\ UNCHANGED nt_file
    /\ UNCHANGED <<file_paths, dest_file, disk, dict, encoded, bmap, num_triples,
                   header, pfc_vars, bt_vars, bits_vars, tmp_file, in_vars,
                   rerun_vars>>

\* An I/O error in convert_to_nt or of reopen() (lib.rs:617, 843-849, 873-877,
\* 893-900): build_hdt returns it.  The temporary file is left with what had
\* been written, some prefix of the triples.
ConvertIoError ==
    /\ pc = "convert"
    /\ LET r == convert_to_nt(file_paths)
       IN  /\ \E k \in 0..Len(r.written) :
                 tmp_files' = [tmp_files EXCEPT ![tmp_file] = SubSeq(r.written, 1, k)]
           /\ \E j \in 0..Len(r.warnings) :
                 warnings' = warnings \o SubSeq(r.warnings, 1, j)
    /\ result' = Err("Io", "convert_to_nt")
    /\ pc' = "done"
    /\ UNCHANGED <<file_paths, dest_file, disk, nt_file, dict, encoded, bmap,
                   num_triples, header, pfc_vars, bt_vars, bits_vars,
                   tmp_file, in_vars, rerun_vars>>

\* FourSectionDictionary::load (lib.rs:247-337), called at lib.rs:362.  The
\* q? of pass 1 (lib.rs:263) returns the syntax error of the file.
DictionaryLoad ==
    /\ pc = "load_dict"
    /\ IF nt_file \in syntax_errors
       THEN /\ result' = Err("Syntax", "FourSectionDictionary::load")
            /\ pc' = "done"
            /\ UNCHANGED <<dict, encoded>>
       ELSE /\ LET triples == ReadTriples(nt_file)
                   d == build_dictionary(triples)
               IN  /\ dict' = d
                   /\ encoded' = encode_triples(d, triples)
            /\ pc' = "load_bitmap"
            /\ UNCHANGED result
    /\ UNCHANGED <<file_paths, dest_file, disk, tmp_files, nt_file, bmap, num_triples,
                   header, pfc_vars, bt_vars, bits_vars,
                   tmp_file, warnings, in_vars, rerun_vars>>

\* An I/O error of pass 1 or pass 3: File::open fails (lib.rs:248-254,
\* 307-313) or a read fails (lib.rs:263, 318).  load returns it.
LoadIoError ==
    /\ pc = "load_dict"
    /\ result' = Err("Io", "FourSectionDictionary::load")
    /\ pc' = "done"
    /\ UNCHANGED <<file_paths, dest_file, disk, tmp_files, nt_file, dict, encoded, bmap,
                   num_triples, header, pfc_vars, bt_vars, bits_vars,
                   tmp_file, warnings, in_vars, rerun_vars>>

\* lib.rs:363-364: BitmapTriples::load on the encoded triples.
BitmapLoad ==
    /\ pc = "load_bitmap"
    /\ LET bt == BitmapTriples_load(encoded)
       IN  /\ num_triples' = Len(encoded)
           /\ IF bt.panic
              THEN /\ result' = Panic("BitmapTriples::load")
                   /\ pc' = "done"
                   /\ UNCHANGED bmap
              ELSE /\ bmap' = bt
                   /\ pc' = "build_header"
                   /\ UNCHANGED result
    /\ UNCHANGED <<file_paths, dest_file, disk, tmp_files, nt_file, dict, encoded,
                   header, pfc_vars, bt_vars, bits_vars,
                   tmp_file, warnings, in_vars, rerun_vars>>

\* Literal::new_simple_literal(n.to_string())
Lit(v) == <<"literal", v>>
Blank(label) == <<"blank", label>>
Iri(v) == <<"iri", v>>

\* The triples build_header inserts (lib.rs:446-597) for the file it is given.
\* now is the time chrono::Utc::now() returns.
header_fields(source_file, d, n_triples, source_len, now) ==
    LET base_iri == Iri(<<"file://", source_file>>)
        stats_id == Blank("statistics")
        pub_id == Blank("publicationInformation")
        format_id == Blank("format")
        dict_id == Blank("dictionary")
        triples_id == Blank("triples")
    IN  { <<base_iri, "rdf:type", Iri("hdt:HDTv1")>>,
          <<base_iri, "rdf:type", Iri("void:Dataset")>>,
          <<base_iri, "void:triples", Lit(n_triples)>>,
          <<base_iri, "void:properties", Lit(Cardinality(DOMAIN d.pred_id_map))>>,
          <<base_iri, "void:distinctSubjects",
            Lit(Cardinality(DOMAIN d.subject_id_map) + Cardinality(DOMAIN d.so_id_map))>>,
          <<base_iri, "void:distinctObjects",
            Lit(Cardinality(DOMAIN d.object_id_map) + Cardinality(DOMAIN d.so_id_map))>>,
          <<base_iri, "hdt:statisticalInformation", stats_id>>,
          <<base_iri, "hdt:statisticalInformation", pub_id>>,
          <<base_iri, "hdt:formatInformation", format_id>>,
          <<format_id, "hdt:dictionary", dict_id>>,
          <<format_id, "hdt:triples", triples_id>>,
          <<dict_id, "hdt:dictionarynumSharedSubjectObject",
            Lit(Cardinality(DOMAIN d.so_id_map))>>,
          <<dict_id, "hdt:dictionarymapping", Lit("2233")>>,
          <<dict_id, "hdt:dictionarysizeStrings", Lit("777")>>,
          <<dict_id, "hdt:dictionaryblockSize", Lit("16")>>,
          <<triples_id, "dc:format", Iri("hdt:triplesBitmap")>>,
          <<triples_id, "hdt:triplesnumTriples", Lit(n_triples)>>,
          <<triples_id, "hdt:triplesOrder", Lit("SPO")>>,
          <<stats_id, "hdt:originalSize", Lit(source_len)>>,
          <<stats_id, "hdt:hdtSize", Lit("222")>>,
          <<pub_id, "dc:issued", Lit(<<"time", now>>)>> }

\* converted_hdt.build_header(nt_file) (lib.rs:372).  The clock has moved on
\* between two calls of build_hdt.
BuildHeader ==
    /\ pc = "build_header"
    /\ header' = header_fields(nt_file, dict, num_triples,
                               NtSize(ReadTriples(nt_file)), run)
    /\ pc' = "save_create"
    /\ UNCHANGED <<file_paths, dest_file, disk, tmp_files, nt_file, dict, encoded, bmap,
                   num_triples, result, pfc_vars, bt_vars, bits_vars,
                   tmp_file, warnings, in_vars, rerun_vars>>

\* The order of the writes of ConvertedHDT::save before self.triples.save
\* (lib.rs:382-440).
container_parts ==
    <<"global_ci", "header_ci", "header_graph", "dict_ci",
      "shared", "subjects", "predicates", "objects", "triples_ci">>

\* the arrays written before the bitmaps
triples_parts_arrays_first == <<"array_y", "array_z", "bitmap_y", "bitmap_z">>

\* The order of the writes of BitmapTriples::save (lib.rs:744-756).
triples_parts == <<"bitmap_y", "bitmap_z", "array_y", "array_z">>

\* All writes of ConvertedHDT::save, in program order.
save_order == container_parts \o triples_parts

bitmap_section(bits) ==
    [panic |-> FALSE, num_bits |-> Len(bits), bytes |-> byte_align_bitmap(bits)]

u32_section(ints) ==
    [panic |-> FALSE, num_entries |-> Len(ints), bytes |-> convert_vec_u32_to_vec_u8(ints)]

control_info(type, format, properties) ==
    [panic |-> FALSE, type |-> type, format |-> format, properties |-> properties]

\* What save hands to the writer for a part; panic = TRUE when computing it panics.
\* The "length" of the header block stands for graph_string.len(): the graph is
\* kept as its set of triples, and its size is their number.  size_strings is
\* never assigned, so "sizeStrings" is its default, 0.
part_data(part) ==
    CASE part = "global_ci" -> control_info("Global", "<http://purl.org/HDT/hdt#HDTv1>", {})
      [] part = "header_ci" ->
            control_info("Header", "ntriples", {<<"length", Cardinality(header)>>})
      [] part = "header_graph" -> [panic |-> FALSE, fields |-> header]
      [] part = "dict_ci" ->
            control_info("Dictionary", "<http://purl.org/HDT/hdt#dictionaryFour>",
                         {<<"mappings", "1">>, <<"sizeStrings", 0>>})
      [] part = "shared" -> compress(dict.shared_terms)
      [] part = "subjects" -> compress(dict.subject_terms)
      [] part = "predicates" -> compress(dict.predicate_terms)
      [] part = "objects" -> compress(dict.object_terms)
      [] part = "triples_ci" ->
            control_info("Triples", "<http://purl.org/HDT/hdt#triplesBitmap>",
                         {<<"order", 1>>})
      [] part = "bitmap_y" -> bitmap_section(bmap.bitmap_y)
      [] part = "bitmap_z" -> bitmap_section(bmap.bitmap_z)
      [] part = "array_y" -> u32_section(bmap.y_vec)
      [] part = "array_z" -> u32_section(bmap.z_vec)

\* File::create(dest_file) (lib.rs:378): the file is created or truncated.
SaveCreate ==
    /\ pc = "save_create"
    /\ dest_file' = [state |-> "created", parts |-> <<>>]
    /\ pc' = "save"
    /\ UNCHANGED <<file_paths, disk, tmp_files, nt_file, dict, encoded, bmap,
                   num_triples, header, result, pfc_vars, bt_vars, bits_vars,
                   tmp_file, warnings, in_vars, rerun_vars>>

\* The next write of save (lib.rs:382-441).  A panic while the part is computed
\* unwinds out of build_hdt.
SaveWrite ==
    /\ pc = "save"
    /\ Len(dest_file.parts) < Len(save_order)
    /\ LET part == save_order[Len(dest_file.parts) + 1]
           data == part_data(part)
       IN  IF data.panic
           THEN /\ result' = Panic("LogSequence2::compress")
                /\ pc' = "done"
                /\ UNCHANGED dest_file
           ELSE /\ dest_file' = [dest_file EXCEPT
                                    !.parts = Append(@, [part |-> part, data |-> data])]
                /\ UNCHANGED <<result, pc>>
    /\ UNCHANGED <<file_paths, disk, tmp_files, nt_file, dict, encoded, bmap,
                   num_triples, header, pfc_vars, bt_vars, bits_vars,
                   tmp_file, warnings, in_vars, rerun_vars>>

\* dest_writer.flush() and the return of build_hdt (lib.rs:442-443, 625).
SaveFlush ==
    /\ pc = "save"
    /\ Len(dest_file.parts) = Len(save_order)
    /\ result' = OkResult
    /\ pc' = "done"
    /\ UNCHANGED <<file_paths, dest_file, disk, tmp_files, nt_file, dict, encoded, bmap,
                   num_triples, header, pfc_vars, bt_vars, bits_vars,
                   tmp_file, warnings, in_vars, rerun_vars>>

\* An I/O error of File::create, of a write or of the flush: the ? operators
\* of save return it and build_hdt returns it (lib.rs:623).
SaveIoError ==
    /\ pc \in {"save_create", "save"}
    /\ result' = Err("Io", "save")
    /\ pc' = "done"
    /\ UNCHANGED <<file_paths, dest_file, disk, tmp_files, nt_file, dict, encoded, bmap,
                   num_triples, header, pfc_vars, bt_vars, bits_vars,
                   tmp_file, warnings, in_vars, rerun_vars>>

Next ==
    \/ BuildStart
    \/ TempfileIoError
    \/ ConvertToNt
    \/ ConvertIoError
    \/ DictionaryLoad
    \/ LoadIoError
    \/ BitmapLoad
    \/ BuildHeader
    \/ SaveCreate
    \/ SaveWrite
    \/ SaveFlush
    \/ SaveIoError

Spec == Init /\ [][Next]_vars

----------------------------------------------------------------------------
(* The caller runs build_hdt a second time on the same arguments, as the   *)
(* loop of benches/benchmark.rs does.                                      *)

\* The caller keeps what the first call wrote and calls build_hdt again: the
\* files on disk stay as the first call left them.
Rerun ==
    /\ pc = "done"
    /\ result.tag = "Ok"
    /\ run = 1
    /\ first_out' = dest_file.parts
    /\ run' = 2
    /\ pc' = "start"
    /\ nt_file' = NoPath
    /\ tmp_file' = NoPath
    /\ dict' = EmptyDictionary
    /\ encoded' = <<>>
    /\ bmap' = NoBitmapTriples
    /\ num_triples' = 0
    /\ header' = {}
    /\ result' = NoResult
    /\ warnings' = <<>>
    /\ UNCHANGED <<file_paths, dest_file, disk, tmp_files, in_vars, pfc_vars, bt_vars,
                   bits_vars>>

NextTwice == Next \/ Rerun

SpecTwice == Init /\ [][NextTwice]_vars

----------------------------------------------------------------------------
(* Reading the written file back.                                          *)

\* The bits of a written bitmap section: bit i is bit (i mod 8) of byte i / 8.
UnpackBits(sec) ==
    [i \in 1..sec.num_bits |->
        (sec.bytes[((i - 1) \div 8) + 1] \div 2^((i - 1) % 8)) % 2 = 1]

\* The entries of a written u32 array section.
UnpackU32(sec) ==
    [i \in 1..sec.num_entries |->
        LET at == 4 * (i - 1)
        IN  sec.bytes[at + 1] + 256 * sec.bytes[at + 2] + 65536 * sec.bytes[at + 3]
              + 16777216 * sec.bytes[at + 4]]

\* The data written for a part of a complete file.
Written(part) ==
    LET i == CHOOSE k \in DOMAIN dest_file.parts : dest_file.parts[k].part = part
    IN  dest_file.parts[i].data

\* The (s, p, o) term strings a reader gets from the written file: IDs up to
\* |shared| are looked up in the shared section, larger ones in the subjects
\* or objects section.
DecodedTriples ==
    LET shared == DecodeSection(Written("shared"), "bytes")
        subjects == DecodeSection(Written("subjects"), "bytes")
        predicates == DecodeSection(Written("predicates"), "bytes")
        objects == DecodeSection(Written("objects"), "bytes")
        bt == [y_vec |-> UnpackU32(Written("array_y")),
               z_vec |-> UnpackU32(Written("array_z")),
               bitmap_y |-> UnpackBits(Written("bitmap_y")),
               bitmap_z |-> UnpackBits(Written("bitmap_z"))]
        ids == ReconstructTriples(bt)
        Subj(id) == IF id <= Len(shared) THEN shared[id] ELSE subjects[id - Len(shared)]
        Obj(id) == IF id <= Len(shared) THEN shared[id] ELSE objects[id - Len(shared)]
    IN  {<<Subj(ids[i].subject), predicates[ids[i].predicate], Obj(ids[i].object)>> :
            i \in DOMAIN ids}

\* The caller's input: the triples of the listed files, as byte strings.
InputTriples == concat_files(file_paths)

InputStrings ==
    {<<as_bytes(InputTriples[i].s), as_bytes(InputTriples[i].p),
       as_bytes(InputTriples[i].o)>> : i \in DOMAIN InputTriples}

\* FourSectionDictionary::load has returned.
DictLoaded == pc \in {"load_bitmap", "build_header", "save_create", "save"}

\* BitmapTriples::load has returned.
BitmapLoaded == pc \in {"build_header", "save_create", "save"}

----------------------------------------------------------------------------
(* Properties.                                                             *)

\* C1: for every non-empty input, build_hdt writes a file whose dictionary
\* sections and (Y, Z, By, Bz) decode to exactly the set of (s, p, o) strings
\* of the input.  (I/O errors of the output are not the claim's subject.)
C1_RoundTrip ==
    (pc = "done" /\ InputTriples # <<>> /\ result.tag # "Err")
        => /\ result.tag = "Ok"
           /\ DecodedTriples = InputStrings

\* C2: a triple that occurs more than once in the input is encoded once: the
\* triple vector holds no triple twice, the reported count is the number of
\* distinct input triples, and within an (s, p) group (a 0 in Bz between two
\* neighbours of Z) the object IDs strictly ascend.
C2_DuplicatesCollapsed ==
    BitmapLoaded
        => /\ \A i, j \in DOMAIN encoded : i # j => encoded[i] # encoded[j]
           /\ num_triples = Cardinality({InputTriples[i] : i \in DOMAIN InputTriples})
           /\ Len(bmap.z_vec) = num_triples
           /\ \A i \in 1..(Len(bmap.z_vec) - 1) :
                 ~bmap.bitmap_z[i] => bmap.z_vec[i] < bmap.z_vec[i + 1]

\* C3: after FourSectionDictionary::load SO, S and O are pairwise disjoint, SO
\* is exactly the terms seen as a subject and as an object, S and O are the
\* other subjects and objects, and P is every predicate.
C3_Partition ==
    DictLoaded
        => LET subj == {InputTriples[i].s : i \in DOMAIN InputTriples}
               obj == {InputTriples[i].o : i \in DOMAIN InputTriples}
           IN  /\ dict.shared_terms \cap dict.subject_terms = {}
               /\ dict.shared_terms \cap dict.object_terms = {}
               /\ dict.subject_terms \cap dict.object_terms = {}
               /\ dict.shared_terms = {t \in subj : t \in obj}
               /\ dict.subject_terms = {t \in subj : t \notin obj}
               /\ dict.object_terms = {t \in obj : t \notin subj}
               /\ dict.predicate_terms = {InputTriples[i].p : i \in DOMAIN InputTriples}

\* a term is subject of one triple and object of another, next to a
\* subject-only and an object-only term
C3_Witness ==
    /\ DictLoaded
    /\ dict.shared_terms # {}
    /\ dict.subject_terms # {}
    /\ dict.object_terms # {}

\* An ID map takes the terms of its section one-to-one onto first..last, the
\* smaller term to the smaller ID.
IdsContiguous(map, section, first) ==
    /\ DOMAIN map = section
    /\ {map[t] : t \in section} = first..(first + Cardinality(section) - 1)
    /\ \A a, b \in section : StrLess(a, b) => map[a] < map[b]

\* C4: shared terms get 1..|SO|, subject-only terms |SO|+1..|SO|+|S|,
\* object-only terms |SO|+1..|SO|+|O|, predicates 1..|P|; in every section the
\* lexicographically smaller term has the smaller ID, no ID skipped or reused.
C4_Ids ==
    DictLoaded
        => LET so == Cardinality(dict.shared_terms)
           IN  /\ IdsContiguous(dict.so_id_map, dict.shared_terms, 1)
               /\ IdsContiguous(dict.subject_id_map, dict.subject_terms, so + 1)
               /\ IdsContiguous(dict.object_id_map, dict.object_terms, so + 1)
               /\ IdsContiguous(dict.pred_id_map, dict.predicate_terms, 1)

\* a shared term shifts the IDs of the subject-only and object-only terms, and
\* a section holds two terms to order
C4_Witness ==
    /\ DictLoaded
    /\ dict.shared_terms # {}
    /\ dict.subject_terms # {}
    /\ dict.object_terms # {}
    /\ Cardinality(dict.predicate_terms) = 2

\* C5: every encoded triple of pass 3 has 1 <= s <= |SO|+|S|, 1 <= p <= |P|
\* and 1 <= o <= |SO|+|O|.
C5_IdRange ==
    DictLoaded
        => \A i \in DOMAIN encoded :
              /\ encoded[i].subject \in
                    1..(Cardinality(dict.shared_terms) + Cardinality(dict.subject_terms))
              /\ encoded[i].predicate \in 1..Cardinality(dict.predicate_terms)
              /\ encoded[i].object \in
                    1..(Cardinality(dict.shared_terms) + Cardinality(dict.object_terms))

\* two triples are encoded; one has a shared subject, the other a subject-only one
C5_Witness ==
    /\ DictLoaded
    /\ Len(encoded) = 2
    /\ \E i, j \in DOMAIN encoded :
          /\ encoded[i].subject <= Cardinality(dict.shared_terms)
          /\ encoded[j].subject > Cardinality(dict.shared_terms)

\* C6: decoding the output of compress (block heads in full, every other entry
\* as the first L chars of the previous term followed by the suffix) gives
\* back the sorted term list, multi-byte terms included.
C6_FrontCodingRoundTrip ==
    pfc_out # <<>>
        => /\ ~pfc_out[1].panic
           /\ DecodeSection(pfc_out[1], "chars") = SortedBytes(pfc_set)

\* C7: for every vector BitmapTriples::load accepts, the walk of Y and Z with
\* By and Bz, subjects counted 1, 2, ..., gives the SPO-sorted vector.
C7_BitmapRoundTrip ==
    (bt_out # <<>> /\ ~bt_out[1].panic)
        => ReconstructTriples(bt_out[1]) = sort_triples_spo(bt_in)

BitmapCounts(bt) ==
    /\ Len(bt.y_vec) = Len(bt.bitmap_y)
    /\ Len(bt.z_vec) = Len(bt.bitmap_z)
    /\ Ones(bt.bitmap_y) = Cardinality({bt_in[i].subject : i \in DOMAIN bt_in})
    /\ Ones(bt.bitmap_z) = Len(bt.y_vec)

\* C8 as stated: for every result of BitmapTriples::load, zero triples
\* included, |Y| = |By|, |Z| = |Bz|, By has one 1 per distinct subject and Bz
\* has |Y| ones.
C8_CountsAlways ==
    (bt_out # <<>> /\ ~bt_out[1].panic) => BitmapCounts(bt_out[1])

\* C8 as amended: the counts hold for every result on at least one triple; on
\* zero triples Y and Z are empty and By = Bz = [1].
C8_Counts ==
    (bt_out # <<>> /\ ~bt_out[1].panic)
        => IF bt_in = <<>>
           THEN /\ bt_out[1].y_vec = <<>>
                /\ bt_out[1].z_vec = <<>>
                /\ bt_out[1].bitmap_y = <<TRUE>>
                /\ bt_out[1].bitmap_z = <<TRUE>>
           ELSE BitmapCounts(bt_out[1])

\* load has returned for two triples with different subjects
C8_Witness ==
    /\ bt_out # <<>>
    /\ ~bt_out[1].panic
    /\ Len(bt_in) = 2
    /\ bt_in[1].subject # bt_in[2].subject

\* The order of the parts as the container format lists them.
ContainerOrder ==
    <<"global_ci", "header_ci", "header_graph", "dict_ci", "shared", "subjects",
      "predicates", "objects", "triples_ci", "bitmap_y", "bitmap_z", "array_y",
      "array_z">>

C10_EmptyInput ==
    file_paths = <<>>
        => /\ pc \in {"start", "done"}
           /\ tmp_files = NoFiles
           /\ dest_file.state # "created"
           /\ pc = "done"
                => result = [tag |-> "Err", kind |-> "InvalidData",
                             msg |-> "no files provided to convert"]

\* build_hdt has returned for an empty list, an older output file in place
C10_Witness ==
    /\ file_paths = <<>>
    /\ pc = "done"
    /\ dest_file.state = "old"

\* build_hdt hands the list to the Normalizer: it is neither empty nor a
\* single .nt path.
Normalized == file_paths # <<>> /\ ~(Len(file_paths) = 1 /\ file_paths[1].ext = "nt")

\* The output path is as it was before the call.
OutputUntouched == dest_file.state \in {"absent", "old"} /\ dest_file.parts = <<>>

\* C11: when the Normalizer fails, build_hdt returns an error and does not
\* abort: for a path whose extension is unrecognized or missing the error is
\* the invalid-input one (io::ErrorKind::InvalidData), for a file with a
\* syntax error it is the parser's syntax error (an I/O error may come first).
C11_NormalizerErrors ==
    (pc = "done" /\ Normalized /\ nt_file = NoPath)
        => /\ result.tag = "Err"
           /\ (Len(file_paths) = 1 /\ file_paths[1].ext \notin RecognizedExtensions)
                 => result.kind \in {"InvalidData", "Io"}
           /\ (Len(file_paths) = 1 /\ file_paths[1] \in syntax_errors)
                 => result.kind \in {"Syntax", "Io"}

\* Every listed file has an extension the parser knows, and one of them has a
\* syntax error.
SyntaxErrorInput ==
    /\ \A i \in DOMAIN file_paths : file_paths[i].ext \in RecognizedExtensions
    /\ \E i \in DOMAIN file_paths : file_paths[i] \in syntax_errors

C13_NoPartialOutput ==
    pc = "done"
        => \/ dest_file.state # "created"
           \/ [i \in DOMAIN dest_file.parts |-> dest_file.parts[i].part] = ContainerOrder

\* The number of warnings that name the file.
WarningsFor(file) == Cardinality({i \in DOMAIN warnings : warnings[i] = file})

\* C14: once the Normalizer has written its file, every quad of the inputs is
\* in it as a triple without its graph, one warning is logged for each file
\* with a quad in a named graph and none for the others, and the build does
\* not fail (but for an I/O error).
C14_NamedGraphWarning ==
    nt_file \in TmpPaths
        => /\ ReadTriples(nt_file) = concat_files(file_paths)
           /\ \A i \in DOMAIN file_paths :
                 WarningsFor(file_paths[i]) =
                    IF \E k \in DOMAIN disk[file_paths[i]] :
                          <<file_paths[i], k>> \in named_graphs
                    THEN 1 ELSE 0
           /\ (pc = "done" /\ named_graphs # {})
                 => (result.tag = "Ok" \/ result.kind = "Io")

\* C15: for a list of exactly one .nt path no temporary file is made and the
\* dictionary is built from that path; for every other list the Normalizer,
\* when it succeeds, leaves one temporary file, the one that is then read,
\* holding the triples of the files in list order.
C15_DirectOrTemporary ==
    IF Len(file_paths) = 1 /\ file_paths[1].ext = "nt"
    THEN /\ tmp_files = NoFiles
         /\ tmp_file = NoPath
         /\ pc # "start" => nt_file = file_paths[1]
         /\ DictLoaded => encoded = encode_triples(dict, disk[file_paths[1]])
    ELSE nt_file # NoPath
            => /\ nt_file = tmp_file
               /\ DOMAIN tmp_files = {tmp_file}
               /\ tmp_files[tmp_file] = concat_files(file_paths)

\* the Normalizer has written the triples of two files that differ
C15_Witness ==
    /\ Len(file_paths) = 2
    /\ pc = "load_dict"
    /\ disk[file_paths[1]] # <<>>
    /\ disk[file_paths[2]] # <<>>
    /\ disk[file_paths[1]] # disk[file_paths[2]]

\* C16: when build_hdt has returned, no temporary file exists.
C16_TempRemoved == pc = "done" => tmp_files = NoFiles

\* The written parts, the dc:issued triple taken out of the header graph.
WithoutIssued(parts) ==
    [i \in DOMAIN parts |->
        IF parts[i].part = "header_graph"
        THEN [part |-> "header_graph",
              data |-> [panic |-> FALSE,
                        fields |-> {t \in parts[i].data.fields : t[2] # "dc:issued"}]]
        ELSE parts[i]]

\* C17: the second run on the same input files writes what the first wrote,
\* the dc:issued triple aside.
C17_SameOutput ==
    (run = 2 /\ pc = "done" /\ result.tag = "Ok")
        => WithoutIssued(dest_file.parts) = WithoutIssued(first_out)

\* C18: the header graph has the rows of the table: the five counts and the
\* three links from the base IRI.
C18_HeaderRows ==
    header # {}
        => LET base == Iri(<<"file://", nt_file>>)
               so == Cardinality(dict.shared_terms)
           IN  /\ <<base, "void:triples", Lit(Len(encoded))>> \in header
               /\ <<base, "void:properties", Lit(Cardinality(dict.predicate_terms))>>
                     \in header
               /\ <<base, "void:distinctSubjects",
                    Lit(so + Cardinality(dict.subject_terms))>> \in header
               /\ <<base, "void:distinctObjects",
                    Lit(so + Cardinality(dict.object_terms))>> \in header
               /\ <<Blank("dictionary"), "hdt:dictionarynumSharedSubjectObject", Lit(so)>>
                     \in header
               /\ <<base, "hdt:statisticalInformation", Blank("statistics")>> \in header
               /\ <<base, "hdt:publicationInformation", Blank("publicationInformation")>>
                     \in header
               /\ <<base, "hdt:formatInformation", Blank("format")>> \in header

\* C19: in every LogSequence2 compress returns for n terms, offsets has
\* ceil(n/16)+1 entries that never descend, the last is the length of
\* compressed_terms, and entry b is where term 16(b-1) of the sorted list
\* stands in full, closed by a 0 byte; for n = 0 compressed_terms is empty
\* and offsets is [0].
C19_Offsets ==
    (pfc_out # <<>> /\ ~pfc_out[1].panic)
        => LET ls == pfc_out[1]
               n == Cardinality(pfc_set)
               blocks == (n + block_size - 1) \div block_size
               terms == SortedBytes(pfc_set)
           IN  /\ ls.num_terms = n
               /\ Len(ls.offsets) = blocks + 1
               /\ \A b \in 1..blocks : ls.offsets[b] <= ls.offsets[b + 1]
               /\ ls.offsets[blocks + 1] = Len(ls.compressed_terms)
               /\ \A b \in 1..blocks :
                     LET head == terms[block_size * (b - 1) + 1]
                     IN  /\ ls.offsets[b] + Len(head) + 1 <= Len(ls.compressed_terms)
                         /\ SubSeq(ls.compressed_terms, ls.offsets[b] + 1,
                                   ls.offsets[b] + Len(head) + 1) = head \o <<0>>
               /\ n = 0 => (ls.compressed_terms = <<>> /\ ls.offsets = <<0>>)

\* compress has returned for a set that fills more than one block
C19_Witness ==
    /\ pfc_out # <<>>
    /\ ~pfc_out[1].panic
    /\ Cardinality(pfc_set) > block_size

\* The listed files parse and have no triple.
EmptyInput ==
    /\ file_paths # <<>>
    /\ InputTriples = <<>>
    /\ \A i \in DOMAIN file_paths :
          /\ file_paths[i].ext \in RecognizedExtensions
          /\ file_paths[i] \notin syntax_errors

BreaksPreconditions(triples) ==
    LET subjects == {triples[i].subject : i \in DOMAIN triples}
    IN  \/ \E i \in DOMAIN triples :
              triples[i].subject = 0 \/ triples[i].predicate = 0 \/ triples[i].object = 0
        \/ subjects # 1..Cardinality(subjects)

\* How BitmapTriples::load ended: its only return is the Ok of lib.rs:734.
LoadOutcome(bt) == IF bt.panic THEN "Panic" ELSE "Ok"

\* C21: BitmapTriples::load ends in a returned error on every vector with a
\* zero ID or with subject IDs that are not 1..N.
C21_RejectsByError ==
    (bt_out # <<>> /\ BreaksPreconditions(bt_in)) => LoadOutcome(bt_out[1]) = "Err"

\* C22: the triples FourSectionDictionary::load returns have no zero ID and
\* their subject IDs are exactly 1..|SO|+|S|, and build_hdt never ends in a
\* panic of BitmapTriples::load.
C22_DenseSubjects ==
    /\ DictLoaded
          => /\ ~BreaksPreconditions(encoded)
             /\ {encoded[i].subject : i \in DOMAIN encoded} =
                    1..(Cardinality(dict.shared_terms) + Cardinality(dict.subject_terms))
    /\ BitmapLoaded => ~bmap.panic
    /\ result # Panic("BitmapTriples::load")

\* BitmapTriples::load has returned inside build_hdt for triples with a shared
\* and a subject-only subject, given in descending order of their IDs
C22_Witness ==
    /\ BitmapLoaded
    /\ Len(encoded) = 2
    /\ encoded[1].subject > encoded[2].subject
    /\ encoded[2].subject <= Cardinality(dict.shared_terms)
    /\ encoded[1].subject > Cardinality(dict.shared_terms)

\* Bytes of the caller's file: a line per quad, the graph name of a quad in a
\* named graph taking its bytes on the line.
SourceSize(file) ==
    NtSize(disk[file])
      + Cardinality({k \in DOMAIN disk[file] : <<file, k>> \in named_graphs})
          * Len(as_bytes(<<60, 103, 62, 32>>))

\* C23: for a single input file the subject of the header's base triples is
\* file:// and the path the caller passed, and hdt:originalSize is the size of
\* that file.
C23_HeaderDescribesSource ==
    (header # {} /\ Len(file_paths) = 1)
        => /\ <<Iri(<<"file://", file_paths[1]>>), "rdf:type", Iri("hdt:HDTv1")>>
                 \in header
           /\ <<Blank("statistics"), "hdt:originalSize",
                Lit(SourceSize(file_paths[1]))>> \in header

\* C24: the bytes byte_align_bitmap returns for n bits are ceil(n/8) bytes,
\* each below 256; bit i of the bitmap (from 0) is bit i mod 8, from the
\* least significant, of byte i / 8, and the bits of the last byte from
\* position n on are zero.
C24_BytePacking ==
    bits_out # <<>>
        => LET buf == bits_out[1]
               n == Len(bits_in)
               BitOf(k) == IF (k \div 8) + 1 \in DOMAIN buf
                           THEN (buf[(k \div 8) + 1] \div 2^(k % 8)) % 2
                           ELSE 2
           IN  /\ Len(buf) = (n + 7) \div 8
               /\ \A j \in DOMAIN buf : buf[j] \in 0..255
               /\ \A i \in 0..(n - 1) : BitOf(i) = IF bits_in[i + 1] THEN 1 ELSE 0
               /\ \A k \in n..(8 * Len(buf) - 1) : BitOf(k) = 0

\* a bitmap of more than a byte that does not end at a byte boundary, its
\* first and its last bit set
C24_Witness ==
    /\ bits_out # <<>>
    /\ Len(bits_in) > 8
    /\ Len(bits_in) % 8 # 0
    /\ bits_in[1]
    /\ bits_in[Len(bits_in)]

====
